---- MODULE Spec2Model ----
(***************************************************************************)
(* Model of the CrossVault on-chain program (src/src/lib.rs).              *)
(*                                                                         *)
(* The program is one entrypoint handler, process_instruction, which the   *)
(* host runtime calls with a program id, a slice of AccountInfo and a      *)
(* byte slice.  The handler executes msg!("feanor!") and then evaluates    *)
(* Ok(()).  The model follows one host that invokes the handler            *)
(* repeatedly; an invocation is three steps: the call, the msg! statement  *)
(* and the return of the tail expression.                                  *)
(*                                                                         *)
(* AccountInfo gives interior mutability to lamports and data, so the      *)
(* account records are program-writable host memory; they are state here.  *)
(***************************************************************************)
EXTENDS Integers, Sequences, FiniteSets, TLC

\* ---------------------------------------------------------------- bounds
MaxCalls == 3        \* invocations the host makes in one behaviour

\* ----------------------------------------------------- host-supplied data
\* Pubkey values the host may pass as program_id.
Pubkeys == {"P1", "P2"}

\* AccountInfo: address, balance, data region, permission flags.
ReadOnlyAccount ==
    [key |-> "A1", lamports |-> 0, data |-> <<>>,
     is_signer |-> FALSE, is_writable |-> FALSE]
WritableAccount ==
    [key |-> "A2", lamports |-> 7, data |-> <<1, 2>>,
     is_signer |-> TRUE, is_writable |-> TRUE]
AccountInfo == {ReadOnlyAccount, WritableAccount}

\* Values of accounts: &[AccountInfo] the host may pass: none, one, many.
AccountSlices ==
    { <<>>,
      <<WritableAccount>>,
      <<ReadOnlyAccount, WritableAccount>>,
      <<WritableAccount, ReadOnlyAccount, ReadOnlyAccount, WritableAccount>> }

\* Values of instruction_data: &[u8] the host may pass.
ByteSlices ==
    { <<>>,
      <<0, 1, 2, 3>>,
      <<255, 254, 253, 252, 251, 250, 249, 248>> }

\* ProgramResult = Result<(), ProgramError>
Ok == [tag |-> "Ok"]
Err(e) == [tag |-> "Err", err |-> e]
NoResult == [tag |-> "None"]

NoCall == [tag |-> "NoCall"]

VARIABLES
    pc,                \* position of the handler: idle, executing, logged, returned
    program_id,        \* argument program_id: &Pubkey
    accounts,          \* argument accounts: &[AccountInfo]
    instruction_data,  \* argument instruction_data: &[u8]
    log,               \* the host's program log
    result,            \* value returned by the current / last invocation
    entry,             \* what the host held when it made the current call
    prev,              \* inputs of the previous completed invocation
    outcomes           \* per completed invocation: its result and its log entries

vars == <<pc, program_id, accounts, instruction_data, log, result, entry, prev, outcomes>>

Init ==
    /\ pc = "idle"
    /\ program_id = "P1"
    /\ accounts = <<>>
    /\ instruction_data = <<>>
    /\ log = <<>>
    /\ result = NoResult
    /\ entry = NoCall
    /\ prev = NoCall
    /\ outcomes = <<>>

\* Variant: the message is written twice.
msg_twice(l, s) == Append(Append(l, s), s)

\* msg!(s): one sol_log call, which appends s to the program log.
msg(l, s) == Append(l, s)

\* Variant: the handler demands a first account, as next_account_info would.
process_instruction_result_needs_account(pid, accs, data) ==
    IF accs = <<>> THEN Err("NotEnoughAccountKeys") ELSE Ok

\* Variant: the handler rejects an empty payload.
process_instruction_result_parses_data(pid, accs, data) ==
    IF data = <<>> THEN Err("InvalidInstructionData") ELSE Ok

\* Variant: the handler only accepts calls addressed to one program id.
process_instruction_result_checks_id(pid, accs, data) ==
    IF pid = "P1" THEN Ok ELSE Err("IncorrectProgramId")

\* The tail expression of process_instruction.
process_instruction_result(pid, accs, data) == Ok

\* Log entries the current invocation has written so far.
Emitted == SubSeq(log, Len(entry.log) + 1, Len(log))

\* The host calls the entrypoint with arbitrary arguments.
Invoke ==
    /\ pc \in {"idle", "returned"}
    /\ Len(outcomes) < MaxCalls
    /\ \E pid \in Pubkeys, accs \in AccountSlices, data \in ByteSlices :
         /\ program_id' = pid
         /\ accounts' = accs
         /\ instruction_data' = data
         /\ entry' = [program_id |-> pid, accounts |-> accs,
                      instruction_data |-> data, log |-> log]
    /\ prev' = IF pc = "returned"
               THEN [program_id |-> program_id, accounts |-> accounts,
                     instruction_data |-> instruction_data]
               ELSE prev
    /\ result' = NoResult
    /\ pc' = "executing"
    /\ UNCHANGED <<log, outcomes>>

\* Variant: a static flag makes the handler log on its first invocation only.
process_instruction_msg_once ==
    /\ pc = "executing"
    /\ log' = IF outcomes = <<>> THEN msg(log, "feanor!") ELSE log
    /\ pc' = "logged"
    /\ UNCHANGED <<program_id, accounts, instruction_data, result, entry, prev, outcomes>>

\* Variant: the handler also drains the lamports of every writable account.
process_instruction_msg_drains ==
    /\ pc = "executing"
    /\ log' = msg(log, "feanor!")
    /\ accounts' = [i \in DOMAIN accounts |->
                      IF accounts[i].is_writable
                      THEN [accounts[i] EXCEPT !.lamports = 0]
                      ELSE accounts[i]]
    /\ pc' = "logged"
    /\ UNCHANGED <<program_id, instruction_data, result, entry, prev, outcomes>>

\* msg!("feanor!");
process_instruction_msg ==
    /\ pc = "executing"
    /\ log' = msg(log, "feanor!")
    /\ pc' = "logged"
    /\ UNCHANGED <<program_id, accounts, instruction_data, result, entry, prev, outcomes>>

\* Variant: the handler may return before the msg! statement has run.
process_instruction_return_early ==
    /\ pc \in {"executing", "logged"}
    /\ result' = process_instruction_result(program_id, accounts, instruction_data)
    /\ outcomes' = Append(outcomes, [result |-> result', entries |-> Emitted])
    /\ pc' = "returned"
    /\ UNCHANGED <<program_id, accounts, instruction_data, log, entry, prev>>

\* Variant: the handler spins instead of returning when the payload is empty.
process_instruction_return_spins ==
    /\ pc = "logged"
    /\ instruction_data # <<>>
    /\ result' = process_instruction_result(program_id, accounts, instruction_data)
    /\ outcomes' = Append(outcomes, [result |-> result', entries |-> Emitted])
    /\ pc' = "returned"
    /\ UNCHANGED <<program_id, accounts, instruction_data, log, entry, prev>>

\* Ok(())
process_instruction_return ==
    /\ pc = "logged"
    /\ result' = process_instruction_result(program_id, accounts, instruction_data)
    /\ outcomes' = Append(outcomes, [result |-> result', entries |-> Emitted])
    /\ pc' = "returned"
    /\ UNCHANGED <<program_id, accounts, instruction_data, log, entry, prev>>

Next ==
    \/ Invoke
    \/ process_instruction_msg
    \/ process_instruction_return

Spec == Init /\ [][Next]_vars

\* The handler runs synchronously to completion once called.
FairSpec ==
    /\ Spec
    /\ WF_vars(process_instruction_msg)
    /\ WF_vars(process_instruction_return)

\* ------------------------------------------------------------ properties
InCall == pc \in {"executing", "logged"}
Inputs == [program_id |-> program_id, accounts |-> accounts,
           instruction_data |-> instruction_data]
EntryInputs == [program_id |-> entry.program_id, accounts |-> entry.accounts,
                instruction_data |-> entry.instruction_data]

\* C1: every invocation that has returned, whatever its program id, account
\* slice (empty included) and payload (empty included), returned Ok(()), and
\* no recorded result is an error.
C1_AlwaysOk ==
    /\ pc = "returned" => result = Ok
    /\ \A i \in DOMAIN outcomes : outcomes[i].result = Ok

\* C1 witness: an invocation with no accounts and no payload has returned.
C1_Witness ==
    /\ pc = "returned"
    /\ accounts = <<>>
    /\ instruction_data = <<>>
    /\ result = Ok

\* C2: when an invocation has returned, the log is the log at the call
\* followed by exactly one entry, the string "feanor!"; during the call the
\* log never holds anything else than the old log plus at most that entry.
C2_OneLogEntry ==
    /\ pc = "returned" => log = Append(entry.log, "feanor!")
    /\ pc = "executing" => log = entry.log
    /\ pc = "logged" => log = Append(entry.log, "feanor!")

\* C2 witness: a later invocation has returned on top of a non-empty log.
C2_Witness ==
    /\ pc = "returned"
    /\ Len(entry.log) = 1
    /\ Len(log) = 2

\* C3: between invocations, after n completed calls, the log has exactly n
\* entries, all "feanor!", entry k written by call k, and all n calls
\* returned Ok.
C3_LogAfterNCalls ==
    pc \in {"idle", "returned"} =>
        /\ Len(log) = Len(outcomes)
        /\ \A k \in DOMAIN log : log[k] = "feanor!"
        /\ \A k \in DOMAIN outcomes :
             /\ outcomes[k].result = Ok
             /\ outcomes[k].entries = <<log[k]>>

\* C3 witness: MaxCalls invocations completed, the last with inputs that
\* differ from those of the one before.
C3_Witness ==
    /\ pc = "returned"
    /\ Len(outcomes) = MaxCalls
    /\ prev # NoCall
    /\ prev # Inputs

\* C4: the result and log entries of an invocation are those of the first
\* invocation (made with no invocation before it), however many invocations
\* preceded it.
C4_HistoryIndependent ==
    \A k \in DOMAIN outcomes : outcomes[k] = outcomes[1]

\* C4 witness: an invocation made after two others has returned.
C4_Witness ==
    /\ pc = "returned"
    /\ Len(outcomes) = 3

\* C5: the handler returns only from a state in which its log entry is
\* already in the log: in every step that takes it to "returned", the log
\* before the step holds the "feanor!" entry after the entries present at the
\* call, and the step does not touch the log.
C5_LogBeforeReturn ==
    [][(pc # "returned" /\ pc' = "returned") =>
          /\ Len(log) = Len(entry.log) + 1
          /\ log[Len(log)] = "feanor!"
          /\ log' = log]_vars

\* C5 witness: the entry is written and the handler has not returned yet.
C5_Witness ==
    /\ pc = "logged"
    /\ result = NoResult
    /\ Emitted = <<"feanor!">>

\* C6: during and after an invocation the program id, every account record
\* and the payload equal what the host passed in; a step of the handler
\* changes nothing the host owns except the log.
C6_InputsUnchanged ==
    pc \in {"executing", "logged", "returned"} => Inputs = EntryInputs

\* C6 witness: an invocation that was handed a writable account with a
\* balance and data has returned.
C6_Witness ==
    /\ pc = "returned"
    /\ \E i \in DOMAIN accounts :
         /\ accounts[i].is_writable
         /\ accounts[i].lamports > 0
         /\ accounts[i].data # <<>>

\* C7: two consecutive invocations whose program ids, account slices and
\* payloads all differ have the same result and the same log entries.
C7_InputIndependent ==
    (/\ pc = "returned"
     /\ prev # NoCall
     /\ prev.program_id # program_id
     /\ prev.accounts # accounts
     /\ prev.instruction_data # instruction_data)
    => outcomes[Len(outcomes)] = outcomes[Len(outcomes) - 1]

\* C7 witness: a call with no accounts and no payload was followed by a call
\* to another program id with accounts and a payload.
C7_Witness ==
    /\ pc = "returned"
    /\ prev # NoCall
    /\ prev.program_id # program_id
    /\ prev.accounts = <<>> /\ Len(accounts) = 4
    /\ prev.instruction_data = <<>> /\ Len(instruction_data) = 8

\* C8: every started invocation reaches "returned" with Ok, and no result is
\* ever an error.
C8_Completes ==
    /\ InCall ~> (pc = "returned" /\ result = Ok)
    /\ [](result.tag # "Err")

\* C8 witness: an invocation with an empty payload has completed.
C8_Witness ==
    /\ pc = "returned"
    /\ result = Ok
    /\ instruction_data = <<>>
    /\ Len(outcomes) >= 1

TypeOK ==
    /\ pc \in {"idle", "executing", "logged", "returned"}
    /\ program_id \in Pubkeys
    /\ instruction_data \in ByteSlices
    /\ \A i \in DOMAIN accounts : accounts[i] \in AccountInfo
    /\ Len(outcomes) <= MaxCalls
====
